---- MODULE Spec2Model ----
(***************************************************************************)
(* Model of scripts/setup_notebook.py: the GenieIQ deployment configurator *)
(* cell.  The cell looks the application up, builds the environment list,  *)
(* submits one deploy request that reuses the active source path, and      *)
(* polls the deployment until it reports a terminal state; one blanket     *)
(* handler catches every exception.                                        *)
(*                                                                         *)
(* The workspace client (w.apps) is an external service: every call either *)
(* raises or returns a value, chosen nondeterministically from small sets. *)
(* Printed lines are modelled as strings built the way the f-strings build *)
(* them; the pictographs that open the lines of the source are not         *)
(* representable in a TLA+ string and are left out of the literals.        *)
(* Optional values (Python None) are sequences of length at most one.      *)
(***************************************************************************)
EXTENDS Naturals, Sequences, FiniteSets

VARIABLES
    cfg,          \* DB_HOST, DB_PORT, DB_NAME, DB_USER, DB_PASS (lines 32-36)
    pc,           \* position of the cell
    app,          \* result of w.apps.get (line 44), None before
    new_vars,     \* environment list (lines 50-58), <<>> before
    source_path,  \* line 62
    deployment,   \* deployment id returned by w.apps.deploy (line 65)
    status,       \* last status returned by w.apps.get_deployment (line 75)
    out,          \* lines printed so far
    caught,       \* exception caught by the handler (line 93), None if none
    calls,        \* remote calls made so far, in order, with their outcome
    deployReqs,   \* arguments of the deploy requests submitted so far
    fetchReqs,    \* arguments of the status fetches made so far
    fetched,      \* statuses returned by the status fetches so far
    sleeps        \* number of time.sleep(5) calls made so far

vars == <<cfg, pc, app, new_vars, source_path, deployment, status, out,
          caught, calls, deployReqs, fetchReqs, fetched, sleeps>>

-----------------------------------------------------------------------------
(* Bounds *)

\* largest number of non-terminal statuses the service returns in one run
MaxPolls == 3

-----------------------------------------------------------------------------
(* Values *)

None == <<>>
Some(x) == <<x>>

\* str() of an optional value, as an f-string or print formats it
Str(o) == IF o = None THEN "None" ELSE o[1]

APP_NAME == "simpletest"

\* the literals of lines 32-36, and one other configuration
Configs ==
    { [host |-> "your-postgres-host.databricks.com", port |-> "5432",
       name |-> "genieiq", user |-> "genieiq_user", pass |-> "your-password"],
      [host |-> "h", port |-> "5432", name |-> "genieiq", user |-> "u",
       pass |-> "p"] }

\* application records the lookup may return
Urls == {"https://simpletest.example", "https://other.example"}
SourcePaths == {"/Workspace/apps/simpletest", "/Workspace/apps/v2"}
ActiveDeployments ==
    {None} \cup { Some([source_code_path |-> sp]) :
                    sp \in {None} \cup {Some(p) : p \in SourcePaths} }
Apps == [name : {APP_NAME}, id : {"app-1"}, url : Urls,
         active_deployment : ActiveDeployments]

DeploymentIds == {"dep-1", "dep-2"}

\* deployment states the service may report
NonTerminalSamples == {"RUNNING", "CANCELLED"}
States == {"SUCCEEDED", "FAILED", "STOPPED", "ERROR"} \cup NonTerminalSamples
Messages == {None, Some("boom")}
Statuses == [state : States, message : Messages]

\* messages of the exceptions the calls may raise
LookupErrors == {"App with name simpletest does not exist"}
DeployErrors == {"deploy rejected"}
FetchErrors == {"connection reset"}
AttributeErrorMsg == "'NoneType' object has no attribute 'source_code_path'"
Errors == LookupErrors \cup DeployErrors \cup FetchErrors \cup {AttributeErrorMsg}

-----------------------------------------------------------------------------
(* Printed lines *)

ConfiguringLine == "Configuring App: " \o APP_NAME \o "..."
FoundLine(a) == "Found App: " \o a.name \o " (ID: " \o a.id \o ")"
UpdatingLine == "Updating Environment Variables..."
RedeployLine(sp) == "Redeploying from " \o Str(sp) \o " with new config..."
StartedLine == "Deployment started... waiting for completion..."
StatusLine(s) == "   Status: " \o s
SuccessLine == "SUCCESS! GenieIQ is now connected to the database."
UrlLine(a) == "Go to: " \o a.url
FailedLine == "Deployment Failed."
EndedLine(s) == "Deployment ended with state: " \o s
ErrorLine(e) == "Error: " \o e

-----------------------------------------------------------------------------
(* The cell *)

\* lines 50-58 with the values of the user and the password exchanged
NewVarsSwapped(c) ==
    << [name |-> "NODE_ENV", value |-> "production"],
       [name |-> "PORT", value |-> "8080"],
       [name |-> "LAKEBASE_HOST", value |-> c.host],
       [name |-> "LAKEBASE_PORT", value |-> c.port],
       [name |-> "LAKEBASE_DATABASE", value |-> c.name],
       [name |-> "LAKEBASE_USER", value |-> c.pass],
       [name |-> "LAKEBASE_PASSWORD", value |-> c.user] >>

\* lines 50-58
NewVars(c) ==
    << [name |-> "NODE_ENV", value |-> "production"],
       [name |-> "PORT", value |-> "8080"],
       [name |-> "LAKEBASE_HOST", value |-> c.host],
       [name |-> "LAKEBASE_PORT", value |-> c.port],
       [name |-> "LAKEBASE_DATABASE", value |-> c.name],
       [name |-> "LAKEBASE_USER", value |-> c.user],
       [name |-> "LAKEBASE_PASSWORD", value |-> c.pass] >>

\* line 87 without ERROR
BreakStatesNoError == {"SUCCEEDED", "FAILED", "STOPPED"}

\* the states on which the loop of lines 74-91 breaks
BreakStates == {"SUCCEEDED", "FAILED", "STOPPED", "ERROR"}

\* lines 79-89 without line 85
BranchLinesNoMessage(st, a) ==
    IF st.state = "SUCCEEDED" THEN <<SuccessLine, UrlLine(a)>>
    ELSE IF st.state = "FAILED" THEN <<FailedLine>>
    ELSE IF st.state \in {"STOPPED", "ERROR"} THEN <<EndedLine(st.state)>>
    ELSE <<>>

\* lines 79-89 with line 85 repeated in the branch of line 87
BranchLinesMessageAlways(st, a) ==
    IF st.state = "SUCCEEDED" THEN <<SuccessLine, UrlLine(a)>>
    ELSE IF st.state = "FAILED" THEN <<FailedLine, Str(st.message)>>
    ELSE IF st.state \in {"STOPPED", "ERROR"}
        THEN <<EndedLine(st.state), Str(st.message)>>
    ELSE <<>>

\* lines 79-89 with line 81 repeated in the branch of line 83
BranchLinesUrlOnFailed(st, a) ==
    IF st.state = "SUCCEEDED" THEN <<SuccessLine, UrlLine(a)>>
    ELSE IF st.state = "FAILED"
        THEN <<FailedLine, Str(st.message), UrlLine(a)>>
    ELSE IF st.state \in {"STOPPED", "ERROR"} THEN <<EndedLine(st.state)>>
    ELSE <<>>

\* lines printed by the branches of lines 79-89 for a fetched status
BranchLines(st, a) ==
    IF st.state = "SUCCEEDED" THEN <<SuccessLine, UrlLine(a)>>
    ELSE IF st.state = "FAILED" THEN <<FailedLine, Str(st.message)>>
    ELSE IF st.state \in {"STOPPED", "ERROR"} THEN <<EndedLine(st.state)>>
    ELSE <<>>

\* number of non-terminal statuses returned so far
NonTerminalCount ==
    Cardinality({i \in 1..Len(fetched) : fetched[i].state \notin BreakStates})

Init ==
    /\ cfg \in Configs
    /\ pc = "start"
    /\ app = None
    /\ new_vars = <<>>
    /\ source_path = None
    /\ deployment = None
    /\ status = None
    /\ out = <<>>
    /\ caught = None
    /\ calls = <<>>
    /\ deployReqs = <<>>
    /\ fetchReqs = <<>>
    /\ fetched = <<>>
    /\ sleeps = 0

\* line 40
Start ==
    /\ pc = "start"
    /\ out' = Append(out, ConfiguringLine)
    /\ pc' = "get_app"
    /\ UNCHANGED <<cfg, app, new_vars, source_path, deployment, status,
                   caught, calls, deployReqs, fetchReqs, fetched, sleeps>>

\* lines 44-45, the lookup returns an application
GetAppOk ==
    /\ pc = "get_app"
    /\ \E a \in Apps :
        /\ app' = Some(a)
        /\ out' = Append(out, FoundLine(a))
    /\ calls' = Append(calls, [op |-> "get", ok |-> TRUE])
    /\ pc' = "build_env"
    /\ UNCHANGED <<cfg, new_vars, source_path, deployment, status, caught,
                   deployReqs, fetchReqs, fetched, sleeps>>

\* line 44 raises and the lookup is tried again
GetAppRaiseRetry ==
    /\ pc = "get_app"
    /\ calls' = Append(calls, [op |-> "get", ok |-> FALSE])
    /\ pc' = "get_app"
    /\ UNCHANGED <<cfg, app, new_vars, source_path, deployment, status, out,
                   caught, deployReqs, fetchReqs, fetched, sleeps>>

\* line 44 raises, lines 93-94
GetAppRaise ==
    /\ pc = "get_app"
    /\ \E e \in LookupErrors :
        /\ caught' = Some(e)
        /\ out' = Append(out, ErrorLine(e))
    /\ calls' = Append(calls, [op |-> "get", ok |-> FALSE])
    /\ pc' = "done"
    /\ UNCHANGED <<cfg, app, new_vars, source_path, deployment, status,
                   deployReqs, fetchReqs, fetched, sleeps>>

\* lines 48-58
BuildEnv ==
    /\ pc = "build_env"
    /\ out' = Append(out, UpdatingLine)
    /\ new_vars' = NewVars(cfg)
    /\ pc' = "read_source"
    /\ UNCHANGED <<cfg, app, source_path, deployment, status, caught, calls,
                   deployReqs, fetchReqs, fetched, sleeps>>

\* lines 62-63, the application has an active deployment
ReadSourceOk ==
    /\ pc = "read_source"
    /\ app[1].active_deployment /= None
    /\ source_path' = app[1].active_deployment[1].source_code_path
    /\ out' = Append(out, RedeployLine(source_path'))
    /\ pc' = "deploy"
    /\ UNCHANGED <<cfg, app, new_vars, deployment, status, caught, calls,
                   deployReqs, fetchReqs, fetched, sleeps>>

\* line 62 raises AttributeError on a None active deployment, lines 93-94
ReadSourceRaise ==
    /\ pc = "read_source"
    /\ app[1].active_deployment = None
    /\ caught' = Some(AttributeErrorMsg)
    /\ out' = Append(out, ErrorLine(AttributeErrorMsg))
    /\ pc' = "done"
    /\ UNCHANGED <<cfg, app, new_vars, source_path, deployment, status, calls,
                   deployReqs, fetchReqs, fetched, sleeps>>

\* lines 65-69 with a fixed source path in place of the one read at line 62
DeployRequestFixedPath ==
    [app_name |-> APP_NAME,
     source_code_path |-> Some("/Workspace/apps/simpletest"),
     env |-> new_vars]

\* the request of lines 65-69
DeployRequest ==
    [app_name |-> APP_NAME, source_code_path |-> source_path, env |-> new_vars]

\* lines 65-71, the service accepts the request
DeployOk ==
    /\ pc = "deploy"
    /\ deployReqs' = Append(deployReqs, DeployRequest)
    /\ calls' = Append(calls, [op |-> "deploy", ok |-> TRUE])
    /\ \E d \in DeploymentIds : deployment' = Some(d)
    /\ out' = Append(out, StartedLine)
    /\ pc' = "get_deployment"
    /\ UNCHANGED <<cfg, app, new_vars, source_path, status, caught,
                   fetchReqs, fetched, sleeps>>

\* line 65 raises, lines 93-94
DeployRaise ==
    /\ pc = "deploy"
    /\ deployReqs' = Append(deployReqs, DeployRequest)
    /\ calls' = Append(calls, [op |-> "deploy", ok |-> FALSE])
    /\ \E e \in DeployErrors :
        /\ caught' = Some(e)
        /\ out' = Append(out, ErrorLine(e))
    /\ pc' = "done"
    /\ UNCHANGED <<cfg, app, new_vars, source_path, deployment, status,
                   fetchReqs, fetched, sleeps>>

\* the request of line 75
FetchRequest == [app_name |-> APP_NAME, deployment_id |-> deployment[1]]

\* lines 75-89 (and the fall through to line 91), the fetch returns a status
GetDeploymentOk ==
    /\ pc = "get_deployment"
    /\ fetchReqs' = Append(fetchReqs, FetchRequest)
    /\ calls' = Append(calls, [op |-> "get_deployment", ok |-> TRUE])
    /\ \E st \in Statuses :
        /\ st.state \notin BreakStates => NonTerminalCount < MaxPolls
        /\ status' = Some(st)
        /\ fetched' = Append(fetched, st)
        /\ out' = Append(out, StatusLine(st.state)) \o BranchLines(st, app[1])
        /\ pc' = IF st.state \in BreakStates THEN "done" ELSE "sleep"
    /\ UNCHANGED <<cfg, app, new_vars, source_path, deployment, caught,
                   deployReqs, sleeps>>

\* line 75 raises and the loop goes on polling
GetDeploymentRaiseResume ==
    /\ pc = "get_deployment"
    /\ fetchReqs' = Append(fetchReqs, FetchRequest)
    /\ calls' = Append(calls, [op |-> "get_deployment", ok |-> FALSE])
    /\ pc' = "sleep"
    /\ UNCHANGED <<cfg, app, new_vars, source_path, deployment, status, out,
                   caught, deployReqs, fetched, sleeps>>

\* line 75 raises, lines 93-94
GetDeploymentRaise ==
    /\ pc = "get_deployment"
    /\ fetchReqs' = Append(fetchReqs, FetchRequest)
    /\ calls' = Append(calls, [op |-> "get_deployment", ok |-> FALSE])
    /\ \E e \in FetchErrors :
        /\ caught' = Some(e)
        /\ out' = Append(out, ErrorLine(e))
    /\ pc' = "done"
    /\ UNCHANGED <<cfg, app, new_vars, source_path, deployment, status,
                   deployReqs, fetched, sleeps>>

\* the loop without line 91
SleepSkipped ==
    /\ pc = "sleep"
    /\ pc' = "get_deployment"
    /\ UNCHANGED <<cfg, app, new_vars, source_path, deployment, status, out,
                   caught, calls, deployReqs, fetchReqs, fetched, sleeps>>

\* line 91
Sleep ==
    /\ pc = "sleep"
    /\ sleeps' = sleeps + 1
    /\ pc' = "get_deployment"
    /\ UNCHANGED <<cfg, app, new_vars, source_path, deployment, status, out,
                   caught, calls, deployReqs, fetchReqs, fetched>>

Next ==
    \/ Start
    \/ GetAppOk
    \/ GetAppRaise
    \/ BuildEnv
    \/ ReadSourceOk
    \/ ReadSourceRaise
    \/ DeployOk
    \/ DeployRaise
    \/ GetDeploymentOk
    \/ GetDeploymentRaise
    \/ Sleep

Spec == Init /\ [][Next]_vars

-----------------------------------------------------------------------------
(* Vocabulary of the properties *)

Last(s) == s[Len(s)]

\* the terminal states of a deployment, as the glossary lists them
TerminalStates == {"SUCCEEDED", "FAILED", "STOPPED", "ERROR"}

\* number of printed lines that belong to the set S
CountLines(S) == Cardinality({i \in 1..Len(out) : out[i] \in S})

\* number of remote calls of kind op made so far
CountCalls(op) == Cardinality({i \in 1..Len(calls) : calls[i].op = op})

ErrorLines == {ErrorLine(e) : e \in Errors}
UrlLines == {UrlLine(a) : a \in Apps}

\* the cell has got past the deploy step
PastDeploy == pc \in {"get_deployment", "sleep", "done"}

\* polling ended on a status the service returned
PollingEnded == pc = "done" /\ caught = None /\ fetched /= <<>>

-----------------------------------------------------------------------------
\* C1: when the lookup succeeded and the application has an active
\* deployment, no state of the run has more than one deploy request, and once
\* the cell is past the deploy step (in particular when it is done, whatever
\* the status fetches returned or raised) exactly one deploy request has been
\* submitted, whose source path is the active source path of the looked-up
\* application.
C1_ExactlyOneDeploy ==
    /\ Len(deployReqs) <= 1
    /\ CountCalls("deploy") = Len(deployReqs)
    /\ (app /= None /\ app[1].active_deployment /= None /\ PastDeploy) =>
          /\ Len(deployReqs) = 1
          /\ deployReqs[1].app_name = app[1].name
          /\ deployReqs[1].source_code_path =
                app[1].active_deployment[1].source_code_path

\* a run that deployed from a real source path, polled, and then had a status
\* fetch raise
C1_Witness ==
    /\ pc = "done"
    /\ caught /= None
    /\ Len(fetched) >= 1
    /\ Len(deployReqs) = 1
    /\ deployReqs[1].source_code_path = Some("/Workspace/apps/v2")

\* C2: the environment list of every deploy request is exactly the seven
\* pairs NODE_ENV=production, PORT=8080, LAKEBASE_HOST=host,
\* LAKEBASE_PORT=port, LAKEBASE_DATABASE=name, LAKEBASE_USER=user,
\* LAKEBASE_PASSWORD=password, in this order, with no name twice.
C2_EnvExact ==
    \A i \in 1..Len(deployReqs) :
        LET env == deployReqs[i].env IN
        /\ Len(env) = 7
        /\ env[1] = [name |-> "NODE_ENV", value |-> "production"]
        /\ env[2] = [name |-> "PORT", value |-> "8080"]
        /\ env[3] = [name |-> "LAKEBASE_HOST", value |-> cfg.host]
        /\ env[4] = [name |-> "LAKEBASE_PORT", value |-> cfg.port]
        /\ env[5] = [name |-> "LAKEBASE_DATABASE", value |-> cfg.name]
        /\ env[6] = [name |-> "LAKEBASE_USER", value |-> cfg.user]
        /\ env[7] = [name |-> "LAKEBASE_PASSWORD", value |-> cfg.pass]
        /\ Cardinality({env[j].name : j \in 1..Len(env)}) = Len(env)

\* a deploy request was submitted for the configuration h / 5432 / genieiq /
\* u / p
C2_Witness ==
    /\ Len(deployReqs) = 1
    /\ cfg.host = "h"
    /\ cfg.user = "u"
    /\ cfg.pass = "p"

\* C3: when the lookup raised, no deploy request and no status fetch is made,
\* the lookup is the only remote call of the run, and the handler has printed
\* the error.
C3_LookupFailure ==
    (calls /= <<>> /\ calls[1].op = "get" /\ ~calls[1].ok) =>
        /\ deployReqs = <<>>
        /\ fetchReqs = <<>>
        /\ Len(calls) = 1
        /\ pc = "done"
        /\ caught /= None
        /\ Last(out) = "Error: " \o caught[1]

\* the lookup raised
C3_Witness ==
    /\ calls = <<[op |-> "get", ok |-> FALSE]>>
    /\ pc = "done"

\* C4 (as claimed): when the looked-up application has no active deployment,
\* or an active deployment without a source path, then no status fetch is
\* made, no deploy request is made or the deploy request is rejected, and the
\* run ends in the handler.
C4_NoSourcePathNoDeploy ==
    (/\ app /= None
     /\ \/ app[1].active_deployment = None
        \/ app[1].active_deployment[1].source_code_path = None) =>
        /\ fetchReqs = <<>>
        /\ deployReqs = <<>> \/ Last(calls) = [op |-> "deploy", ok |-> FALSE]
        /\ pc = "done" => (caught /= None /\ Last(out) \in ErrorLines)

\* C5: when polling ended on a terminal status after n non-terminal ones,
\* there were exactly n + 1 status fetches and n sleeps, and the fetch that
\* returned the terminal status is the last remote call of the run.  While
\* polling, the number of sleeps is the number of fetches that returned a
\* non-terminal status.
C5_PollCounts ==
    /\ pc = "get_deployment" => sleeps = Len(fetchReqs)
    /\ pc = "sleep" => sleeps + 1 = Len(fetchReqs)
    /\ (PollingEnded /\ Last(fetched).state \in TerminalStates) =>
        LET n == Len(fetched) - 1 IN
        /\ \A i \in 1..n : fetched[i].state \notin TerminalStates
        /\ Len(fetchReqs) = n + 1
        /\ CountCalls("get_deployment") = n + 1
        /\ sleeps = n
        /\ Len(calls) = n + 3
        /\ Last(calls) = [op |-> "get_deployment", ok |-> TRUE]

\* the status sequence RUNNING, RUNNING, SUCCEEDED: three fetches
C5_Witness ==
    /\ pc = "done"
    /\ Len(fetched) = 3
    /\ fetched[1].state = "RUNNING"
    /\ fetched[2].state = "RUNNING"
    /\ fetched[3].state = "SUCCEEDED"
    /\ Len(fetchReqs) = 3

\* C6: a status fetch that returns FAILED is the last one, the cell is done
\* without an exception, and when the status carries a message the message is
\* the last line printed.
C6_FailedMessageSurfaced ==
    \A i \in 1..Len(fetched) :
        fetched[i].state = "FAILED" =>
            /\ i = Len(fetched)
            /\ pc = "done"
            /\ caught = None
            /\ fetched[i].message /= None =>
                   Last(out) = fetched[i].message[1]

\* polling ended on FAILED with the message boom
C6_Witness ==
    /\ pc = "done"
    /\ fetched /= <<>>
    /\ Last(fetched) = [state |-> "FAILED", message |-> Some("boom")]

\* C7 (as claimed): when polling stops on FAILED, STOPPED or ERROR with a
\* status that carries a message, the message is one of the printed lines.
C7_MessagePrintedOnAnyFailure ==
    (/\ PollingEnded
     /\ Last(fetched).state \in {"FAILED", "STOPPED", "ERROR"}
     /\ Last(fetched).message /= None) =>
        \E i \in 1..Len(out) : out[i] = Last(fetched).message[1]

\* C7 (amended): when polling stops on FAILED with a status that carries a
\* message, the message is printed; when it stops on STOPPED or ERROR the last
\* line printed names the state and the message is not printed.
C7_MessagePrintedOnFailedOnly ==
    PollingEnded =>
        /\ (Last(fetched).state = "FAILED" /\ Last(fetched).message /= None) =>
              \E i \in 1..Len(out) : out[i] = Last(fetched).message[1]
        /\ Last(fetched).state \in {"STOPPED", "ERROR"} =>
              /\ Last(out) = "Deployment ended with state: "
                                \o Last(fetched).state
              /\ Last(fetched).message /= None =>
                    \A i \in 1..Len(out) : out[i] /= Last(fetched).message[1]

\* polling ended on STOPPED with the message boom
C7_Witness ==
    /\ PollingEnded
    /\ Last(fetched) = [state |-> "STOPPED", message |-> Some("boom")]

\* C8: a fetch that returns a status ends the loop if and only if the state is
\* SUCCEEDED, FAILED, STOPPED or ERROR; on every other state the cell sleeps,
\* and after the sleep it fetches again.  The cell ends without an exception
\* only at a fetch that returned a terminal state.
C8_StopIffTerminal ==
    [][ /\ Len(fetched') = Len(fetched) + 1 =>
            /\ Last(fetched').state \in TerminalStates =>
                   (pc' = "done" /\ caught' = None)
            /\ Last(fetched').state \notin TerminalStates => pc' = "sleep"
        /\ pc = "sleep" => (pc' = "get_deployment" /\ calls' = calls)
        /\ (pc /= "done" /\ pc' = "done" /\ caught' = None) =>
            /\ Len(fetched') = Len(fetched) + 1
            /\ Last(fetched').state \in TerminalStates
      ]_vars

\* the cell is polling again after two statuses whose state is not terminal,
\* the second one being a value outside the usual state machine
C8_Witness ==
    /\ pc = "get_deployment"
    /\ Len(fetched) = 2
    /\ fetched[2].state = "CANCELLED"
    /\ sleeps = 2

\* C9: a remote call that raised is the last remote call of the run (no
\* retry, no further call of any kind), the cell is done, and exactly one
\* error line has been printed, which is the last line; a run in which nothing
\* raised has printed no error line.
C9_ErrorHandledOnce ==
    /\ \A i \in 1..Len(calls) :
          ~calls[i].ok =>
              /\ i = Len(calls)
              /\ caught /= None
    /\ caught /= None =>
          /\ pc = "done"
          /\ CountLines(ErrorLines) = 1
          /\ Last(out) = "Error: " \o caught[1]
    /\ caught = None => CountLines(ErrorLines) = 0

\* a status fetch raised after a successful deploy and one returned status
C9_Witness ==
    /\ caught /= None
    /\ Len(deployReqs) = 1
    /\ Len(fetched) = 1
    /\ Last(calls) = [op |-> "get_deployment", ok |-> FALSE]

\* C10: the URL line is printed exactly once when polling ended on SUCCEEDED
\* and is absent in every other state; the URL printed is the one of the
\* application record returned by the lookup.
C10_UrlIffSucceeded ==
    /\ CountLines(UrlLines) =
          IF PollingEnded /\ Last(fetched).state = "SUCCEEDED" THEN 1 ELSE 0
    /\ CountLines(UrlLines) = 1 =>
          /\ Last(out) = "Go to: " \o app[1].url
          /\ \A i \in 1..(Len(out) - 1) : out[i] \notin UrlLines

\* polling ended on SUCCEEDED after a non-terminal status, for the second URL
C10_Witness ==
    /\ PollingEnded
    /\ Len(fetched) = 2
    /\ Last(fetched).state = "SUCCEEDED"
    /\ app[1].url = "https://other.example"

====
